---- MODULE Spec2Model ----
(***************************************************************************)
(* Model of the RAG ingestion and query workflows (main.py), the embedder  *)
(* and chunk loader (data_loder.py) and the Qdrant facade (vectore_db.py). *)
(*                                                                         *)
(* A string that the code inspects character by character (source ids and  *)
(* the hashed key) is a sequence of one-character strings.  A vector is    *)
(* the record [of |-> text it embeds, len |-> its number of components]:   *)
(* the code never looks at the components, only at the length.             *)
(*                                                                         *)
(* Specifications: Spec (two ingestion runs on a fresh engine), QuerySpec  *)
(* (a query run on a collection that may hold other writers' points),      *)
(* EmbedSpec (embed_texts), IdSpec (the point ids), SearchSpec (search),    *)
(* PipelineSpec (one ingestion run and a query run), UISpec (a session of  *)
(* streamlit_app.py and the ingestion run of one of its events).           *)
(***************************************************************************)
EXTENDS Integers, Sequences, FiniteSets, TLC

\* ------------------------------------------------------------------ bounds
MaxTexts == 3
MaxBatchSize == 2
MaxChunks == 2
MaxRetries == 1
MaxTopK == 2
MaxOffset == 11
MaxSourceLen == 2
MaxForeign == 2
MaxEvents == 3

\* ------------------------------------------------------- program constants
EMBED_DIM == 3072
DefaultBatchSize == 100
DefaultTopK == 5

\* ------------------------------------------------------------ value sets
Texts == {"alpha info", "beta info"}
BadDim == EMBED_DIM - 1536
Min(a, b) == IF a < b THEN a ELSE b
SeqsUpTo(S, n) == UNION {[1..k -> S] : k \in 0..n}

VARIABLES emb, idp, srch, collection, store, ing, qry, hist, ui

vars == <<emb, idp, srch, collection, store, ing, qry, hist, ui>>

(***************************************************************************)
(* data_loder.py: embed_texts, one provider call per loop iteration.       *)
(***************************************************************************)
\* The embedding provider's answer to one batch.  A well-behaved provider
\* answers one vector of EMBED_DIM components per text, in order; the code
\* validates the answer, so the provider may also answer a vector of another
\* length at one position `bad`, one vector too few or too many, or fail.
ProviderModes(n) ==
    [kind : {"aligned", "short", "long", "error"},
     bad : {{}} \cup {{k} : k \in 1..n}]

ProviderCreate(batch, mode) ==
    LET full == [k \in 1..Len(batch) |->
                   [of |-> batch[k],
                    len |-> IF k \in mode.bad THEN BadDim ELSE EMBED_DIM]]
    IN CASE mode.kind = "aligned" -> [ok |-> TRUE, data |-> full]
         [] mode.kind = "short" ->
              [ok |-> TRUE, data |-> SubSeq(full, 1, Len(full) - 1)]
         [] mode.kind = "long" ->
              [ok |-> TRUE, data |-> Append(full, full[Len(full)])]
         [] OTHER -> [ok |-> FALSE, data |-> <<>>]

EmbedEnterMutReturnEmpty(texts, batch_size) ==
    [texts |-> texts, batch_size |-> batch_size, i |-> 0,
     all_embeddings |-> <<>>, calls |-> <<>>, responses |-> <<>>,
     pc |-> IF texts = <<>> THEN "returned" ELSE "loop",
     error |-> "none"]

\* Entry of embed_texts: the empty-input check and the loop initialisation.
EmbedEnter(texts, batch_size) ==
    [texts |-> texts, batch_size |-> batch_size, i |-> 0,
     all_embeddings |-> <<>>, calls |-> <<>>, responses |-> <<>>,
     pc |-> IF texts = <<>> THEN "raised" ELSE "loop",
     error |-> IF texts = <<>> THEN "InvalidInput" ELSE "none"]

BatchMutLong(texts, i, batch_size) ==
    SubSeq(texts, i + 1, Min(i + batch_size + 1, Len(texts)))

\* The slice texts[i : i + batch_size] (i is zero-based as in the code).
Batch(texts, i, batch_size) ==
    SubSeq(texts, i + 1, Min(i + batch_size, Len(texts)))

\* One iteration of the loop: slice, provider call, extend.  `calls` and
\* `responses` record what was sent to and answered by the provider.
EmbedCall(st, mode) ==
    LET batch == Batch(st.texts, st.i, st.batch_size)
        response == ProviderCreate(batch, mode)
        next_i == st.i + st.batch_size
    IN IF ~response.ok
       THEN [st EXCEPT !.calls = Append(@, batch),
                       !.pc = "raised", !.error = "ProviderError"]
       ELSE [st EXCEPT !.calls = Append(@, batch),
                       !.responses = Append(@, response.data),
                       !.all_embeddings = @ \o response.data,
                       !.i = next_i,
                       !.pc = IF next_i >= Len(st.texts)
                              THEN "check" ELSE "loop"]

EmbedCheckMutCountLess(st) ==
    IF Len(st.all_embeddings) < Len(st.texts)
    THEN [st EXCEPT !.pc = "raised", !.error = "CountMismatch"]
    ELSE IF st.all_embeddings[1].len # EMBED_DIM
    THEN [st EXCEPT !.pc = "raised", !.error = "DimensionMismatch"]
    ELSE [st EXCEPT !.pc = "returned"]

\* The two checks after the loop and the return.
EmbedCheck(st) ==
    IF Len(st.all_embeddings) # Len(st.texts)
    THEN [st EXCEPT !.pc = "raised", !.error = "CountMismatch"]
    ELSE IF st.all_embeddings[1].len # EMBED_DIM
    THEN [st EXCEPT !.pc = "raised", !.error = "DimensionMismatch"]
    ELSE [st EXCEPT !.pc = "returned"]

\* embed_texts run to its end against the provider answers `modes`.
RECURSIVE EmbedRun(_, _)
EmbedRun(st, modes) ==
    CASE st.pc = "loop" -> EmbedRun(EmbedCall(st, Head(modes)), Tail(modes))
      [] st.pc = "check" -> EmbedCheck(st)
      [] OTHER -> st

embed_texts(texts, batch_size, modes) ==
    EmbedRun(EmbedEnter(texts, batch_size), modes)

(***************************************************************************)
(* Specification EmbedSpec: embed_texts on bounded inputs.                 *)
(***************************************************************************)
EmbIdle == [texts |-> <<>>, batch_size |-> 1, i |-> 0, all_embeddings |-> <<>>,
            calls |-> <<>>, responses |-> <<>>, pc |-> "idle",
            error |-> "none"]

EmbStart ==
    /\ emb.pc = "idle"
    /\ \E texts \in SeqsUpTo(Texts, MaxTexts), b \in 1..MaxBatchSize :
          emb' = EmbedEnter(texts, b)
    /\ UNCHANGED <<ui, idp, srch, collection, store, ing, qry, hist>>

EmbProviderCall ==
    /\ emb.pc = "loop"
    /\ \E mode \in ProviderModes(MaxBatchSize) : emb' = EmbedCall(emb, mode)
    /\ UNCHANGED <<ui, idp, srch, collection, store, ing, qry, hist>>

EmbFinish ==
    /\ emb.pc = "check"
    /\ emb' = EmbedCheck(emb)
    /\ UNCHANGED <<ui, idp, srch, collection, store, ing, qry, hist>>

EmbInit == emb = EmbIdle

EmbNext == EmbStart \/ EmbProviderCall \/ EmbFinish

(***************************************************************************)
(* main.py, upsert_step: the identity scheme.                              *)
(***************************************************************************)
NAMESPACE_URL == "6ba7b811-9dad-11d1-80b4-00c04fd430c8"

Digits == <<"0", "1", "2", "3", "4", "5", "6", "7", "8", "9">>

\* str(i) of a non-negative integer, as the f-string formats it.
RECURSIVE Dec(_)
Dec(i) == IF i < 10 THEN <<Digits[i + 1]>>
          ELSE Dec(i \div 10) \o <<Digits[(i % 10) + 1]>>

KeyMutNoSep(source_id, i) == source_id \o Dec(i)

\* f"{source_id}:{i}"
Key(source_id, i) == source_id \o <<":">> \o Dec(i)

\* uuid.uuid5 is a SHA-1 based hash of (namespace, name); it is modelled as
\* collision free, so that two ids are equal exactly when their names are.
uuid5(namespace, name) == [namespace |-> namespace, name |-> name]

PointId(source_id, i) == uuid5(NAMESPACE_URL, Key(source_id, i))

(***************************************************************************)
(* Specification IdSpec: the identity scheme on bounded inputs.            *)
(***************************************************************************)
SourceChars == {"d", ":", "1"}
SourceStrings == UNION {[1..k -> SourceChars] : k \in 1..MaxSourceLen}
IdInputs == [source_id : SourceStrings, offset : 0..MaxOffset]

IdIdle == [pc |-> "idle", a |-> [source_id |-> <<"d">>, offset |-> 0],
           b |-> [source_id |-> <<"d">>, offset |-> 0],
           key_a |-> <<>>, key_b |-> <<>>,
           id_a |-> uuid5(NAMESPACE_URL, <<>>),
           id_b |-> uuid5(NAMESPACE_URL, <<>>)]

\* Two derivations, as two iterations of the list comprehension make them.
DeriveIds ==
    /\ idp.pc = "idle"
    /\ \E a \in IdInputs, b \in IdInputs :
          idp' = [pc |-> "derived", a |-> a, b |-> b,
                  key_a |-> Key(a.source_id, a.offset),
                  key_b |-> Key(b.source_id, b.offset),
                  id_a |-> PointId(a.source_id, a.offset),
                  id_b |-> PointId(b.source_id, b.offset)]
    /\ UNCHANGED <<ui, emb, srch, collection, store, ing, qry, hist>>

IdInit == idp = IdIdle

IdNext == DeriveIds

(***************************************************************************)
(* vectore_db.py: QdrantStorage over the Qdrant engine.  A stored point is *)
(* [id, vector, payload]; a payload is a function on a subset of           *)
(* {"text", "source"}, so that a field can be missing.                     *)
(***************************************************************************)
\* The empty string: a text is an atom, a source id a character sequence.
EmptyStr(k) == IF k = "text" THEN "" ELSE <<>>

\* payload.get(k) is truthy: the field is there and is not empty.
Truthy(payload, k) == k \in DOMAIN payload /\ payload[k] # EmptyStr(k)

EngineUpsertMutInsert(points, p) == points \cup {p}

EngineUpsertMutPurge(points, p) ==
    {q \in points : q.payload["source"] # p.payload["source"]} \cup {p}

\* client.upsert of one point: insert, or overwrite the point of that id.
EngineUpsert(points, p) == {q \in points : q.id # p.id} \cup {p}

\* client.query_points(limit = top_k): the nearest points, best first.  The
\* components of the vectors are not modelled, so any ranking of the stored
\* points is possible; the engine returns at most `limit` of them.
EngineQuery(points, limit) ==
    LET n == Min(limit, Cardinality(points))
    IN {resp \in [1..n -> points] :
          \A j, k \in 1..n : j # k => resp[j] # resp[k]}

\* The loop of search: contexts in response order, sources as a set.
RECURSIVE ContextsOf(_)
ContextsOf(resp) ==
    IF resp = <<>> THEN <<>>
    ELSE LET payload == Head(resp).payload
         IN (IF Truthy(payload, "text") THEN <<payload["text"]>> ELSE <<>>)
            \o ContextsOf(Tail(resp))

SourcesOfMutTied(resp) ==
    {resp[k].payload["source"] :
       k \in {j \in 1..Len(resp) : /\ Truthy(resp[j].payload, "source")
                                   /\ Truthy(resp[j].payload, "text")}}

SourcesOf(resp) ==
    {resp[k].payload["source"] :
       k \in {j \in 1..Len(resp) : Truthy(resp[j].payload, "source")}}

\* list(sources): the elements of the set once each, in an arbitrary order.
ListsOf(S) ==
    {l \in [1..Cardinality(S) -> S] :
       \A j, k \in 1..Cardinality(S) : j # k => l[j] # l[k]}

\* The values search can return for an engine response.
search(resp) ==
    {[contexts |-> ContextsOf(resp), sources |-> l] : l \in ListsOf(SourcesOf(resp))}

(***************************************************************************)
(* Specification SearchSpec: search on bounded engine responses, over a    *)
(* collection that may hold points other writers put there.                *)
(***************************************************************************)
SourceNames == {<<"d", "o", "c", "1">>, <<"d", "o", "c", "2">>}
NoName == <<>>

AnyPayloads ==
    {t @@ s : t \in {<<>>} \cup {[text |-> x] : x \in Texts \cup {""}},
              s \in {<<>>} \cup {[source |-> x] : x \in SourceNames \cup {NoName}}}

SrchIdle == [pc |-> "idle", top_k |-> 0, response |-> <<>>,
             result |-> [contexts |-> <<>>, sources |-> <<>>]]

SearchCall ==
    /\ srch.pc = "idle"
    /\ \E top_k \in 1..MaxTopK :
       \E payloads \in SeqsUpTo(AnyPayloads, top_k) :
          LET resp == [k \in 1..Len(payloads) |->
                         [id |-> k, payload |-> payloads[k]]]
          IN \E res \in search(resp) :
                srch' = [pc |-> "returned", top_k |-> top_k,
                         response |-> resp, result |-> res]
    /\ UNCHANGED <<ui, emb, idp, collection, store, ing, qry, hist>>

SrchNext == SearchCall

(***************************************************************************)
(* QdrantStorage.__init__: existence check, then create.  The engine       *)
(* rejects the creation of a collection that exists (409 Conflict), which  *)
(* the client raises as an exception.                                      *)
(***************************************************************************)
Runs == {1, 2}
QueryRun == 3

StepRaisedMutFromTop(rec, restart) ==
    IF rec.attempt < MaxRetries
    THEN [rec EXCEPT !.pc = "load", !.attempt = @ + 1]
    ELSE [rec EXCEPT !.pc = "failed"]

\* What a step that raised becomes: the workflow engine runs the step again
\* from its first statement, at most MaxRetries times, then fails the run.
StepRaised(rec, restart) ==
    IF rec.attempt < MaxRetries
    THEN [rec EXCEPT !.pc = restart, !.attempt = @ + 1]
    ELSE [rec EXCEPT !.pc = "failed"]

(***************************************************************************)
(* data_loder.py: load_and_chunk_pdf.  The file at pdf_path is             *)
(* [kind, chunks]: missing, not a .pdf, a PDF without extractable text, or *)
(* a PDF that the reader and the splitter turn into `chunks`.              *)
(***************************************************************************)
\* The chunk lists of the documents: "alpha info", "beta info", "alpha info",
\* ... cut at every length up to MaxChunks, and the same starting with
\* "beta info" cut at length one.
Alternating(first, n) ==
    [k \in 1..n |-> IF (k % 2 = 1) = (first = "alpha info")
                    THEN "alpha info" ELSE "beta info"]

ChunkLists == {Alternating("alpha info", n) : n \in 1..MaxChunks}
              \cup {Alternating("beta info", 1)}

Pdfs == {[kind |-> k, chunks |-> <<>>] : k \in {"missing", "notpdf", "notext"}}
        \cup {[kind |-> "pdf", chunks |-> c] : c \in ChunkLists}

load_and_chunk_pdf(pdf) ==
    CASE pdf.kind = "missing" -> [ok |-> FALSE, error |-> "FileNotFoundError", chunks |-> <<>>]
      [] pdf.kind = "notpdf" -> [ok |-> FALSE, error |-> "ValueError", chunks |-> <<>>]
      [] pdf.kind = "notext" -> [ok |-> FALSE, error |-> "ValueError", chunks |-> <<>>]
      [] pdf.chunks = <<>> -> [ok |-> FALSE, error |-> "ValueError", chunks |-> <<>>]
      [] OTHER -> [ok |-> TRUE, error |-> "none", chunks |-> pdf.chunks]

(***************************************************************************)
(* main.py: rag_ingest_pdf.                                                *)
(***************************************************************************)
PdfPaths == {<<"a">>}
EventSourceIds == {<<"d", "1">>}

IngestEvents == [pdf_path : PdfPaths]
                \cup [pdf_path : PdfPaths, source_id : EventSourceIds]

IngIdle == [pc |-> "idle", event |-> [pdf_path |-> <<>>],
            pdf |-> [kind |-> "missing", chunks |-> <<>>],
            source_id |-> <<>>, chunks |-> <<>>, vectors |-> <<>>,
            landed |-> 0, attempt |-> 0, loads |-> 0, ingested |-> -1]

\* ctx.event.data.get("source_id", pdf_path)
SourceIdOf(ev) ==
    IF "source_id" \in DOMAIN ev THEN ev["source_id"] ELSE ev["pdf_path"]

PointOfMutAttempt(rec, k) ==
    [id |-> PointId(rec.source_id, k - 1 + rec.attempt),
     vector |-> rec.vectors[k],
     payload |-> [text |-> rec.chunks[k], source |-> rec.source_id]]

PointOfMutText(rec, k) ==
    [id |-> PointId(rec.source_id, k - 1),
     vector |-> rec.vectors[k],
     payload |-> [text |-> rec.chunks[1], source |-> rec.source_id]]

\* ids[i], vectors[i] and payloads[i] of upsert_step as the PointStruct that
\* QdrantStorage.upsert builds (k is one-based, the code's i is k - 1).
PointOf(rec, k) ==
    [id |-> PointId(rec.source_id, k - 1),
     vector |-> rec.vectors[k],
     payload |-> [text |-> rec.chunks[k], source |-> rec.source_id]]

\* The event arrives; the file at pdf_path is what the run will read.
IngTrigger(r) ==
    /\ ing[r].pc = "idle"
    /\ \E ev \in IngestEvents, pdf \in Pdfs :
          ing' = [ing EXCEPT ![r] = [IngIdle EXCEPT !.pc = "load",
                                                    !.event = ev, !.pdf = pdf]]
    /\ hist' = [hist EXCEPT !.sequel =
                   IF \E o \in Runs \ {r} : ing[o].pc = "done"
                   THEN @ \cup {r} ELSE @]
    /\ UNCHANGED <<ui, emb, idp, srch, collection, store, qry>>

\* step.run("load-and-chunk", load_step); loads counts the calls of
\* load_and_chunk_pdf of the run.
IngLoadStep(r) ==
    /\ ing[r].pc = "load"
    /\ LET source_id == SourceIdOf(ing[r].event)
           res == load_and_chunk_pdf(ing[r].pdf)
           called == [ing[r] EXCEPT !.loads = Min(@ + 1, MaxRetries + 2)]
       IN ing' = [ing EXCEPT ![r] =
                    IF res.ok
                    THEN [called EXCEPT !.pc = "embed", !.attempt = 0,
                                        !.source_id = source_id,
                                        !.chunks = res.chunks]
                    ELSE StepRaised(called, "load")]
    /\ UNCHANGED <<ui, emb, idp, srch, collection, store, qry, hist>>

\* upsert_step, first statement: vectors = embed_texts(chunks)
IngEmbed(r) ==
    /\ ing[r].pc = "embed"
    /\ \E mode \in ProviderModes(MaxChunks) :
          LET e == embed_texts(ing[r].chunks, DefaultBatchSize, <<mode>>)
          IN ing' = [ing EXCEPT ![r] =
                       IF e.pc = "returned"
                       THEN [@ EXCEPT !.pc = "open",
                                      !.vectors = e.all_embeddings]
                       ELSE StepRaised([@ EXCEPT !.vectors = <<>>], "embed")]
    /\ UNCHANGED <<ui, emb, idp, srch, collection, store, qry, hist>>

\* QdrantStorage(): collection_exists
IngOpenCheck(r) ==
    /\ ing[r].pc = "open"
    /\ ing' = [ing EXCEPT ![r] =
                 IF collection
                 THEN [@ EXCEPT !.pc = "upsert", !.landed = 0]
                 ELSE [@ EXCEPT !.pc = "create"]]
    /\ UNCHANGED <<ui, emb, idp, srch, collection, store, qry, hist>>

\* QdrantStorage(): create_collection
IngOpenCreate(r) ==
    /\ ing[r].pc = "create"
    /\ IF collection
       THEN /\ ing' = [ing EXCEPT ![r] =
                        StepRaised([@ EXCEPT !.vectors = <<>>], "embed")]
            /\ hist' = [hist EXCEPT !.conflicts = @ \cup {r}]
            /\ UNCHANGED collection
       ELSE /\ collection' = TRUE
            /\ ing' = [ing EXCEPT ![r] =
                        [@ EXCEPT !.pc = "upsert", !.landed = 0]]
            /\ UNCHANGED hist
    /\ UNCHANGED <<ui, emb, idp, srch, store, qry>>

\* QdrantStorage.upsert: the next point of the request lands in the engine
\* (the engine applies the points of one request in their order, and the
\* points of two requests in any interleaving).
IngUpsertLand(r) ==
    /\ ing[r].pc = "upsert"
    /\ ing[r].landed < Len(ing[r].chunks)
    /\ LET k == ing[r].landed + 1
           p == PointOf(ing[r], k)
       IN /\ store' = EngineUpsert(store, p)
          /\ ing' = [ing EXCEPT ![r].landed = k]
          /\ hist' = [hist EXCEPT
                           !.last = [id \in DOMAIN hist.last \cup {p.id} |->
                                       IF id = p.id THEN r ELSE hist.last[id]]]
    /\ UNCHANGED <<ui, emb, idp, srch, collection, qry>>

\* The upsert request fails or times out, or the step's completion is not
\* recorded: the step raises with some, none or all of its points written.
IngUpsertRaise(r) ==
    /\ ing[r].pc = "upsert"
    /\ ing' = [ing EXCEPT ![r] =
                 StepRaised([@ EXCEPT !.vectors = <<>>, !.landed = 0],
                            "embed")]
    /\ hist' = [hist EXCEPT !.lost_ack =
                   IF ing[r].landed = Len(ing[r].chunks)
                   THEN @ \cup {r} ELSE @]
    /\ UNCHANGED <<ui, emb, idp, srch, collection, store, qry>>

\* upsert returned; return {"ingested": len(chunks)} is recorded.
IngStepDone(r) ==
    /\ ing[r].pc = "upsert"
    /\ ing[r].landed = Len(ing[r].chunks)
    /\ ing' = [ing EXCEPT ![r] =
                 [@ EXCEPT !.pc = "done", !.vectors = <<>>, !.landed = 0,
                           !.ingested = Len(ing[r].chunks)]]
    /\ UNCHANGED <<ui, emb, idp, srch, collection, store, qry, hist>>

rag_ingest_pdf(r) ==
    \/ IngTrigger(r) \/ IngLoadStep(r) \/ IngEmbed(r) \/ IngOpenCheck(r)
    \/ IngOpenCreate(r) \/ IngUpsertLand(r) \/ IngUpsertRaise(r)
    \/ IngStepDone(r)

(***************************************************************************)
(* main.py: rag_query_pdf.  A text the code builds or trims is a sequence  *)
(* of tokens (words and white space).                                      *)
(***************************************************************************)
Questions == {"", "what is alpha?"}

QueryEvents ==
    {q @@ k : q \in {<<>>} \cup {[question |-> x] : x \in Questions},
              k \in {<<>>} \cup {[top_k |-> x] : x \in 1..MaxTopK}}

FallbackAnswer ==
    <<"I", " ", "don't", " ", "know", " ", "based", " ", "on", " ", "the",
      " ", "provided", " ", "context.">>

WhiteSpace == {" ", "\n"}

\* What the generative model may answer.
OutputTexts == {<<" ", "alpha", " ", "is", " ", "first.", "\n">>,
                <<"I", " ", "don't", " ", "know.">>}

\* str.strip()
RECURSIVE LStrip(_)
LStrip(t) == IF t # <<>> /\ Head(t) \in WhiteSpace THEN LStrip(Tail(t)) ELSE t

RECURSIVE RStrip(_)
RStrip(t) == IF t # <<>> /\ t[Len(t)] \in WhiteSpace
             THEN RStrip(SubSeq(t, 1, Len(t) - 1)) ELSE t

Strip(t) == RStrip(LStrip(t))

NoResult == [answer |-> <<>>, sources |-> <<>>, num_contexts |-> -1]

QryIdle == [pc |-> "idle", event |-> <<>>, question |-> "", top_k |-> 0,
            vector |-> [of |-> "", len |-> 0],
            response |-> <<>>,
            search_result |-> [contexts |-> <<>>, sources |-> <<>>],
            attempt |-> 0, result |-> NoResult,
            embed_calls |-> 0, search_calls |-> 0, gen_calls |-> 0]

\* The event arrives.
QryTrigger ==
    /\ qry.pc = "idle"
    /\ \E ev \in QueryEvents : qry' = [QryIdle EXCEPT !.pc = "start", !.event = ev]
    /\ UNCHANGED <<ui, emb, idp, srch, collection, store, ing, hist>>

HasQuestionMutKeyOnly(ev) == "question" \in DOMAIN ev

\* question = ctx.event.data.get("question") is truthy
HasQuestion(ev) == "question" \in DOMAIN ev /\ ev["question"] # ""

\* The statements before the first step: question and top_k.
QryStart ==
    /\ qry.pc = "start"
    /\ LET ev == qry.event
       IN qry' = IF ~HasQuestion(ev)
                 THEN StepRaised(qry, "start")
                 ELSE [qry EXCEPT !.pc = "embed", !.attempt = 0,
                                  !.question = ev["question"],
                                  !.top_k = IF "top_k" \in DOMAIN ev
                                            THEN ev["top_k"] ELSE DefaultTopK]
    /\ UNCHANGED <<ui, emb, idp, srch, collection, store, ing, hist>>

\* search_step, first statement: vector = embed_texts([question])[0]
QryEmbed ==
    /\ qry.pc = "embed"
    /\ \E mode \in ProviderModes(1) :
          LET e == embed_texts(<<qry.question>>, DefaultBatchSize, <<mode>>)
              called == [qry EXCEPT !.embed_calls = Min(@ + 1, MaxRetries + 1)]
          IN qry' = IF e.pc = "returned"
                    THEN [called EXCEPT !.pc = "open",
                                        !.vector = e.all_embeddings[1]]
                    ELSE StepRaised(called, "embed")
    /\ UNCHANGED <<ui, emb, idp, srch, collection, store, ing, hist>>

\* QdrantStorage(): collection_exists
QryOpenCheck ==
    /\ qry.pc = "open"
    /\ qry' = [qry EXCEPT !.pc = IF collection THEN "search" ELSE "create"]
    /\ UNCHANGED <<ui, emb, idp, srch, collection, store, ing, hist>>

\* QdrantStorage(): create_collection
QryOpenCreate ==
    /\ qry.pc = "create"
    /\ IF collection
       THEN /\ qry' = StepRaised(qry, "embed")
            /\ hist' = [hist EXCEPT !.conflicts = @ \cup {QueryRun}]
            /\ UNCHANGED collection
       ELSE /\ collection' = TRUE
            /\ qry' = [qry EXCEPT !.pc = "search"]
            /\ UNCHANGED hist
    /\ UNCHANGED <<ui, emb, idp, srch, store, ing>>

QrySearchMutRecreate ==
    /\ qry.pc = "search"
    /\ \E resp \in EngineQuery(store, qry.top_k) :
       \E res \in search(resp) :
          qry' = [qry EXCEPT !.pc = "body", !.attempt = 0,
                             !.response = resp,
                             !.search_result = res,
                             !.search_calls = Min(@ + 1, MaxRetries + 1)]
    /\ hist' = [hist EXCEPT !.queried = @ \cup {qry.vector.len}]
    /\ store' = {}
    /\ UNCHANGED <<ui, emb, idp, srch, collection, ing>>

\* QdrantStorage().search(vector, top_k); the step's result is recorded.
\* response keeps the points the engine matched.
QrySearch ==
    /\ qry.pc = "search"
    /\ \E resp \in EngineQuery(store, qry.top_k) :
       \E res \in search(resp) :
          qry' = [qry EXCEPT !.pc = "body", !.attempt = 0,
                             !.response = resp,
                             !.search_result = res,
                             !.search_calls = Min(@ + 1, MaxRetries + 1)]
    /\ hist' = [hist EXCEPT !.queried = @ \cup {qry.vector.len}]
    /\ UNCHANGED <<ui, emb, idp, srch, collection, store, ing>>

\* The query request fails: the step raises.
QrySearchRaise ==
    /\ qry.pc = "search"
    /\ qry' = StepRaised([qry EXCEPT !.search_calls = Min(@ + 1, MaxRetries + 1)],
                         "embed")
    /\ hist' = [hist EXCEPT !.queried = @ \cup {qry.vector.len}]
    /\ UNCHANGED <<ui, emb, idp, srch, collection, store, ing>>

IsEmptyMutSources(search_result) == search_result.sources = <<>>

\* not search_result["contexts"]
IsEmpty(search_result) == search_result.contexts = <<>>

\* The statements after the step: fallback, or prompt, generative call and
\* answer.  A generative call that fails raises out of the function.
QryBody ==
    /\ qry.pc = "body"
    /\ IF IsEmpty(qry.search_result)
       THEN qry' = [qry EXCEPT !.pc = "done",
                               !.result = [answer |-> FallbackAnswer,
                                           sources |-> <<>>,
                                           num_contexts |-> 0]]
       ELSE \E ok \in BOOLEAN, output_text \in OutputTexts :
               LET called == [qry EXCEPT !.gen_calls = Min(@ + 1, MaxRetries + 1)]
               IN qry' = IF ok
                         THEN [called EXCEPT
                                 !.pc = "done",
                                 !.result =
                                    [answer |-> Strip(output_text),
                                     sources |-> qry.search_result.sources,
                                     num_contexts |->
                                        Len(qry.search_result.contexts)]]
                         ELSE StepRaised(called, "body")
    /\ UNCHANGED <<ui, emb, idp, srch, collection, store, ing, hist>>

(***************************************************************************)
(* streamlit_app.py: one session of the UI.                                *)
(***************************************************************************)
\* A path and a file name are sequences of path characters; None is the
\* empty sequence.
NoFile == <<>>
NoEvent == 0

\* The files the user may drop on the uploader (type = ["pdf"]): a name and
\* the bytes, which are a PDF with text or a PDF without extractable text.
FileNames == {<<"a", ".pdf">>, <<"b", ".pdf">>}

UploadedFiles ==
    {[name |-> n, pdf |-> d] :
        n \in FileNames,
        d \in {[kind |-> "pdf", chunks |-> <<"alpha info">>],
               [kind |-> "notext", chunks |-> <<>>]}}

\* Path("uploads") / file.name
UploadsDir == <<"uploads">>

Join(dir, name) == dir \o <<"/">> \o name

\* Path.resolve(): a relative path is made absolute under the working
\* directory.
Cwd == <<"/", "app">>

Resolve(path) ==
    IF path # <<>> /\ Head(path) = "/" THEN path ELSE Join(Cwd, path)

\* Path.name: what follows the last separator.
PathName(path) ==
    LET seps == {i \in 1..Len(path) : path[i] = "/"}
    IN IF seps = {} THEN path
       ELSE LET last == CHOOSE i \in seps : \A j \in seps : j <= i
            IN SubSeq(path, last + 1, Len(path))

\* save_uploaded_pdf: the bytes are written at uploads/<file.name>.
save_uploaded_pdf(files, file) ==
    LET path == Join(UploadsDir, file.name)
    IN [path |-> path, files |-> (Resolve(path) :> file.pdf) @@ files]

\* The data of the event send_ingest_event sends.
IngestEventOf(pdf_path) ==
    [pdf_path |-> Resolve(pdf_path), source_id |-> PathName(pdf_path)]

\* What the user may type in the question box, and the slider's values.
UserQuestions == {<<>>, <<" ">>, <<" ", "what", " ", "is", " ", "alpha?", "\n">>}
SliderValues == {1, DefaultTopK}
NoQuery == [question |-> <<>>, top_k |-> 0]

\* The data of the event send_query_event sends.
QueryEventOf(question, top_k) == [question |-> question, top_k |-> top_k]

\* Session state (ingested, source_name, ingest_event_id), the ingest events
\* sent so far (the id of an event is its position), the uploads directory,
\* the uploader's value at the last rerun, the query event in flight and
\* what the page shows; handled is the event whose run this specification
\* follows.
UiIdle == [ingested |-> FALSE, source_name |-> NoFile,
           ingest_event_id |-> NoEvent,
           events |-> <<>>, files |-> <<>>, uploaded |-> NoFile,
           pc |-> "ready", query |-> NoQuery, shown |-> "nothing",
           handled |-> NoEvent]

ShouldIngestMutAlways(state, uploaded_file) == uploaded_file # NoFile

\* if uploaded_file: if not ingested or uploaded_file.name != source_name
ShouldIngest(state, uploaded_file) ==
    /\ uploaded_file # NoFile
    /\ \/ ~state.ingested
       \/ uploaded_file.name # state.source_name

\* INGEST FLOW: save, send, and mark the session ingested.
IngestFlow(state, uploaded_file) ==
    IF ShouldIngest(state, uploaded_file)
    THEN LET saved == save_uploaded_pdf(state.files, uploaded_file)
             events == Append(state.events, IngestEventOf(saved.path))
         IN [state EXCEPT !.files = saved.files,
                          !.events = events,
                          !.ingested = TRUE,
                          !.source_name = PathName(saved.path),
                          !.ingest_event_id = Len(events)]
    ELSE state

\* One run of the script, from the widgets to send_query_event.  The Ask
\* button exists only when the previous run drew the form, that is when the
\* session was ingested.
UiRerun ==
    /\ ui.pc = "ready"
    /\ \E uploaded_file \in {NoFile} \cup UploadedFiles,
          submit \in BOOLEAN,
          user_question \in UserQuestions,
          top_k \in SliderValues :
          /\ submit => ui.ingested
          /\ ShouldIngest(ui, uploaded_file) => Len(ui.events) < MaxEvents
          /\ LET seen == [ui EXCEPT !.uploaded =
                            IF uploaded_file = NoFile THEN NoFile
                            ELSE uploaded_file.name]
                 after == IngestFlow(seen, uploaded_file)
             IN ui' = IF ~after.ingested
                      THEN after
                      ELSE IF submit /\ Strip(user_question) # <<>>
                      THEN [after EXCEPT
                              !.pc = "waiting",
                              !.query = QueryEventOf(Strip(user_question),
                                                     top_k)]
                      ELSE [after EXCEPT !.shown = "nothing"]
    /\ UNCHANGED <<emb, idp, srch, collection, store, ing, qry, hist>>

\* wait_for_output: the query run completed, failed, or the wait timed out.
UiWait ==
    /\ ui.pc = "waiting"
    /\ \E status \in {"Completed", "Failed", "Timeout"} :
          ui' = [ui EXCEPT !.pc = "ready",
                           !.query = NoQuery,
                           !.shown = CASE status = "Completed" -> "answer"
                                       [] status = "Failed" -> "RuntimeError"
                                       [] OTHER -> "TimeoutError"]
    /\ UNCHANGED <<emb, idp, srch, collection, store, ing, qry, hist>>

\* The engine starts the ingestion run of one of the events sent; the run
\* reads the file at the event's pdf_path.
UiDispatch ==
    /\ ui.handled = NoEvent
    /\ ing[1].pc = "idle"
    /\ \E k \in 1..Len(ui.events) :
          /\ ui' = [ui EXCEPT !.handled = k]
          /\ ing' = [ing EXCEPT ![1] =
                       [IngIdle EXCEPT !.pc = "load",
                                       !.event = ui.events[k],
                                       !.pdf = ui.files[ui.events[k].pdf_path]]]
    /\ UNCHANGED <<emb, idp, srch, collection, store, qry, hist>>

(***************************************************************************)
(* Specifications.  hist is history: last[id] is the run whose write to id *)
(* landed last, conflicts the openers whose create_collection was          *)
(* rejected, lost_ack the runs that re-executed embed-and-upsert after all *)
(* its points had landed, queried the lengths of the vectors passed to     *)
(* search, sequel the runs triggered after another run was done.           *)
(***************************************************************************)
HistInit == [last |-> <<>>, conflicts |-> {}, lost_ack |-> {}, queried |-> {},
             sequel |-> {}]

\* Spec: two ingestion runs, in any interleaving, on a fresh engine.
Init ==
    /\ emb = EmbIdle /\ idp = IdIdle /\ srch = SrchIdle /\ ui = UiIdle
    /\ collection = FALSE /\ store = {}
    /\ ing = [r \in Runs |-> IngIdle]
    /\ qry = QryIdle
    /\ hist = HistInit

Next ==
    \/ \E r \in Runs : IngTrigger(r)
    \/ \E r \in Runs : IngLoadStep(r)
    \/ \E r \in Runs : IngEmbed(r)
    \/ \E r \in Runs : IngOpenCheck(r)
    \/ \E r \in Runs : IngOpenCreate(r)
    \/ \E r \in Runs : IngUpsertLand(r)
    \/ \E r \in Runs : IngUpsertRaise(r)
    \/ \E r \in Runs : IngStepDone(r)

Spec == Init /\ [][Next]_vars

\* EmbedSpec: embed_texts alone.
EmbedSpec == Init /\ [][EmbNext]_vars

\* IdSpec: the identity scheme alone.
IdSpec == Init /\ [][IdNext]_vars

\* SearchSpec: QdrantStorage.search alone.
SearchSpec == Init /\ [][SrchNext]_vars

\* QuerySpec: a query run on a collection that other writers filled.
ForeignId(k) == uuid5(NAMESPACE_URL, <<"f", Digits[k + 1]>>)

ForeignStores ==
    UNION {{{[id |-> ForeignId(k), vector |-> [of |-> "", len |-> EMBED_DIM],
              payload |-> f[k]] : k \in 1..n} : f \in [1..n -> AnyPayloads]}
           : n \in 1..MaxForeign}

QueryInit ==
    /\ emb = EmbIdle /\ idp = IdIdle /\ srch = SrchIdle /\ ui = UiIdle
    /\ \/ collection = FALSE /\ store = {}
       \/ collection = TRUE /\ store \in ForeignStores
    /\ ing = [r \in Runs |-> IngIdle]
    /\ qry = QryIdle
    /\ hist = HistInit

QueryNext ==
    \/ QryTrigger \/ QryStart \/ QryEmbed \/ QryOpenCheck \/ QryOpenCreate
    \/ QrySearch \/ QrySearchRaise \/ QryBody

QuerySpec == QueryInit /\ [][QueryNext]_vars

\* PipelineSpec: one ingestion run and a query run, in any interleaving, on
\* a fresh engine.
PipelineNext ==
    \/ IngTrigger(1) \/ IngLoadStep(1) \/ IngEmbed(1) \/ IngOpenCheck(1)
    \/ IngOpenCreate(1) \/ IngUpsertLand(1) \/ IngUpsertRaise(1)
    \/ IngStepDone(1)
    \/ QryTrigger \/ QryStart \/ QryEmbed \/ QryOpenCheck \/ QryOpenCreate
    \/ QrySearch \/ QrySearchRaise \/ QryBody

PipelineSpec == Init /\ [][PipelineNext]_vars

\* UISpec: one UI session and the ingestion run of one of its events, on a
\* fresh engine.
UINext ==
    \/ UiRerun \/ UiWait \/ UiDispatch
    \/ IngLoadStep(1) \/ IngEmbed(1) \/ IngOpenCheck(1) \/ IngOpenCreate(1)
    \/ IngUpsertLand(1) \/ IngUpsertRaise(1) \/ IngStepDone(1)

UISpec == Init /\ [][UINext]_vars

(***************************************************************************)
(* Properties.                                                             *)
(***************************************************************************)
Other(r) == CHOOSE o \in Runs : o # r

\* The points of a failure-free run of embed-and-upsert on an empty store,
\* without their vectors.
Expected(chunks, source_id) ==
    {[id |-> uuid5(NAMESPACE_URL, source_id \o <<":">> \o Dec(k - 1)),
      payload |-> [text |-> chunks[k], source |-> source_id]] :
        k \in 1..Len(chunks)}

\* The stored points without their vectors.
Stored == {[id |-> p.id, payload |-> p.payload] : p \in store}

StoredOf(source_id) == {p \in Stored : p.payload["source"] = source_id}

\* C1: a run of the ingestion workflow on (D, S) that starts after a run on
\* the same (D, S) is done leaves, at every step and at its end, the stored
\* points what the first run left: one point per chunk of D, none twice.
C1_IdempotentIngestion ==
    \A r \in hist.sequel :
       LET o == Other(r)
       IN (/\ ing[r].pdf.chunks = ing[o].chunks
           /\ SourceIdOf(ing[r].event) = ing[o].source_id)
          => /\ Stored = Expected(ing[o].chunks, ing[o].source_id)
             /\ Cardinality(store) = Len(ing[o].chunks)

C1_Witness ==
    \E r \in hist.sequel :
       /\ ing[r].pc = "done" /\ ing[Other(r)].pc = "done"
       /\ ing[r].chunks = ing[Other(r)].chunks
       /\ ing[r].source_id = ing[Other(r)].source_id
       /\ Len(ing[r].chunks) = 2
       /\ Cardinality(store) = 2

\* C2: when embed-and-upsert of a run completes, after any re-executions
\* (also one that follows an upsert that landed whole), the stored points of
\* the run's source id are those of one failure-free execution, provided no
\* other run writes under that source id.
C2_RetrySafety ==
    \A r \in Runs :
       (/\ ing[r].pc = "done"
        /\ \/ ing[Other(r)].pc = "idle"
           \/ SourceIdOf(ing[Other(r)].event) # ing[r].source_id)
       => /\ StoredOf(ing[r].source_id)
               = Expected(ing[r].chunks, ing[r].source_id)
          /\ Cardinality({p \in store : p.payload["source"] = ing[r].source_id})
               = Len(ing[r].chunks)

C2_Witness ==
    \E r \in hist.lost_ack :
       /\ ing[r].pc = "done"
       /\ ing[Other(r)].pc = "idle"
       /\ Len(ing[r].chunks) = 2
       /\ Cardinality(store) = 2

\* C3: a query run whose search step returned no contexts makes no
\* generative call and returns the fallback answer, no sources and
\* num_contexts = 0, whatever sources the search step returned.
C3_EmptyContextFallback ==
    (qry.pc \in {"body", "done"} /\ qry.search_result.contexts = <<>>)
    => /\ qry.gen_calls = 0
       /\ qry.pc = "done" =>
            qry.result = [answer |-> FallbackAnswer, sources |-> <<>>,
                          num_contexts |-> 0]

C3_Witness ==
    /\ qry.pc = "done"
    /\ qry.search_result.contexts = <<>>
    /\ qry.search_result.sources # <<>>
    /\ qry.result.answer = FallbackAnswer
    /\ qry.result.sources = <<>>
    /\ qry.gen_calls = 0

\* C4: whenever embed_texts returns, it returns one vector per text and
\* every returned vector has EMBED_DIM components.
C4_AllDimensionsValidated ==
    emb.pc = "returned"
    => /\ Len(emb.all_embeddings) = Len(emb.texts)
       /\ \A k \in 1..Len(emb.all_embeddings) :
             emb.all_embeddings[k].len = EMBED_DIM

\* C5: every vector that upsert_step passes on to the store, and every
\* stored vector, has EMBED_DIM components.
C5_DimensionGuard ==
    /\ \A r \in Runs :
          ing[r].pc \in {"open", "create", "upsert"}
          => \A k \in 1..Len(ing[r].vectors) :
                ing[r].vectors[k].len = EMBED_DIM
    /\ \A p \in store : p.vector.len = EMBED_DIM

\* C6: the k-th provider call carries texts[(k-1)*b : k*b]; a run that no
\* provider call aborts makes ceil(n/b) calls; all_embeddings is the
\* concatenation of the answers in call order, and when every answer has
\* one vector per text of its batch, the vector at position i is the one
\* of texts[i].
RECURSIVE Concat(_)
Concat(ss) == IF ss = <<>> THEN <<>> ELSE Head(ss) \o Concat(Tail(ss))

C6_BatchBoundaries ==
    LET n == Len(emb.texts)
        b == emb.batch_size
    IN emb.pc # "idle"
       => /\ \A k \in 1..Len(emb.calls) :
                /\ emb.calls[k] =
                     [j \in 1..(Min(k * b, n) - (k - 1) * b) |->
                        emb.texts[(k - 1) * b + j]]
                /\ Len(emb.calls[k]) \in 1..b
                /\ k < Len(emb.calls) => Len(emb.calls[k]) = b
          /\ (emb.pc = "check" \/ emb.pc = "returned"
                 \/ emb.error \in {"CountMismatch", "DimensionMismatch"})
               => Len(emb.calls) = (n + b - 1) \div b
          /\ emb.all_embeddings = Concat(emb.responses)
          /\ (/\ emb.pc = "returned"
              /\ \A k \in 1..Len(emb.responses) :
                    Len(emb.responses[k]) = Len(emb.calls[k]))
               => \A i \in 1..n : emb.all_embeddings[i].of = emb.texts[i]

C6_Witness ==
    /\ emb.pc = "returned"
    /\ Len(emb.texts) = 3
    /\ emb.batch_size = 2
    /\ Len(emb.calls) = 2
    /\ Len(emb.calls[2]) = 1
    /\ emb.texts[1] # emb.texts[2]

\* C7: the key that is hashed, and with it the id, is the same for the same
\* (source_id, offset) and differs for two different pairs, also when the
\* source ids contain ':' or digits.
C7_DeterministicIdentity ==
    idp.pc = "derived"
    => /\ (idp.a = idp.b) => (idp.key_a = idp.key_b /\ idp.id_a = idp.id_b)
       /\ (idp.a # idp.b) => (idp.key_a # idp.key_b /\ idp.id_a # idp.id_b)

C7_Witness ==
    /\ idp.pc = "derived"
    /\ idp.a.source_id = <<"d", "1">> /\ idp.a.offset = 0
    /\ idp.b.source_id = <<"d">> /\ idp.b.offset = 10
    /\ idp.key_a # idp.key_b

\* C8: search returns at most top_k contexts, the non-empty texts of the
\* matched points in the engine's order, and as sources every non-empty
\* source of a matched point exactly once, whether or not the point has a
\* text.
HasField(j, f) ==
    /\ f \in DOMAIN srch.response[j].payload
    /\ srch.response[j].payload[f] # (IF f = "text" THEN "" ELSE <<>>)

WithText == {j \in 1..Len(srch.response) : HasField(j, "text")}

\* The index of the m-th matched point that has a text.
NthWithText(m) ==
    CHOOSE j \in WithText : Cardinality({i \in WithText : i <= j}) = m

C8_SearchResultShape ==
    srch.pc = "returned"
    => LET contexts == srch.result.contexts
           sources == srch.result.sources
       IN /\ Len(contexts) <= srch.top_k
          /\ Len(contexts) = Cardinality(WithText)
          /\ \A m \in 1..Len(contexts) :
                contexts[m] = srch.response[NthWithText(m)].payload["text"]
          /\ \A j, k \in 1..Len(sources) : j # k => sources[j] # sources[k]
          /\ {sources[j] : j \in 1..Len(sources)}
               = {srch.response[j].payload["source"] :
                    j \in {i \in 1..Len(srch.response) : HasField(i, "source")}}

C8_Witness ==
    /\ srch.pc = "returned"
    /\ Len(srch.response) = 2
    /\ ~HasField(1, "text") /\ HasField(1, "source")
    /\ HasField(2, "text") /\ HasField(2, "source")
    /\ srch.response[1].payload["source"] # srch.response[2].payload["source"]
    /\ Len(srch.result.contexts) = 1
    /\ Len(srch.result.sources) = 2

\* C9: no opener's create_collection is rejected because another opener
\* created the collection first.
C9_BootstrapToleratesRace == hist.conflicts = {}

\* C10: with two ingestion runs in any interleaving, no id is stored twice,
\* every stored point carries the payload of the run whose write to its id
\* landed last, and when both runs are done with the same chunk list and
\* source id the store is that of a single run.
C10_ConcurrentSameSource ==
    /\ \A p, q \in store : p.id = q.id => p = q
    /\ \A p \in store :
          LET w == ing[hist.last[p.id]]
          IN [id |-> p.id, payload |-> p.payload]
                \in Expected(w.chunks, w.source_id)
    /\ (/\ \A r \in Runs : ing[r].pc = "done"
        /\ ing[1].chunks = ing[2].chunks
        /\ ing[1].source_id = ing[2].source_id)
       => Stored = Expected(ing[1].chunks, ing[1].source_id)

C10_Witness ==
    /\ \A r \in Runs : ing[r].pc = "done"
    /\ ing[1].source_id = ing[2].source_id
    /\ ing[1].chunks = <<"alpha info", "beta info">>
    /\ ing[2].chunks = <<"beta info">>
    /\ hist.sequel = {}
    /\ hist.last[PointId(ing[1].source_id, 0)] = 1
    /\ hist.last[PointId(ing[1].source_id, 1)] = 1
    /\ Cardinality(store) = 2

\* C11: a finished ingestion run returns ingested = n and has stored, for
\* every offset i < n, the point of id deriveId(S, i) with payload
\* {text: c_i, source: S}; every point a search matches, the nearest one
\* first, has its text among the returned contexts and its source among the
\* returned sources.
C11_RoundTrip ==
    /\ ing[1].pc = "done"
       => /\ ing[1].ingested = Len(ing[1].chunks)
          /\ Expected(ing[1].chunks, ing[1].source_id) \subseteq Stored
    /\ qry.pc \in {"body", "done"}
       => \A k \in 1..Len(qry.response) :
             LET p == qry.response[k]
             IN /\ [id |-> p.id, payload |-> p.payload]
                     \in Expected(ing[1].chunks, ing[1].source_id)
                /\ \E j \in 1..Len(qry.search_result.contexts) :
                      qry.search_result.contexts[j] = p.payload["text"]
                /\ \E j \in 1..Len(qry.search_result.sources) :
                      qry.search_result.sources[j] = ing[1].source_id

C11_Witness ==
    /\ ing[1].pc = "done"
    /\ ing[1].chunks = <<"alpha info", "beta info">>
    /\ ing[1].ingested = 2
    /\ qry.pc = "done"
    /\ qry.top_k = 2
    /\ Len(qry.response) = 2
    /\ qry.response[1].payload["text"] = "alpha info"
    /\ qry.search_result.contexts = <<"alpha info", "beta info">>
    /\ qry.search_result.sources = <<ing[1].source_id>>
    /\ qry.result.num_contexts = 2

\* C12: when the provider answered every batch and the total number of
\* vectors differs from len(texts), embed_texts raises the count mismatch
\* and does not return; a return has exactly len(texts) vectors.
C12_CountValidation ==
    /\ (/\ emb.pc \in {"returned", "raised"}
        /\ emb.error \notin {"InvalidInput", "ProviderError"}
        /\ Len(emb.all_embeddings) # Len(emb.texts))
       => (emb.pc = "raised" /\ emb.error = "CountMismatch")
    /\ emb.error = "CountMismatch"
       => Len(emb.all_embeddings) # Len(emb.texts)

C12_Witness ==
    /\ emb.pc = "raised"
    /\ emb.error = "CountMismatch"
    /\ Len(emb.calls) = 2
    /\ Len(emb.all_embeddings) = Len(emb.texts) + 1

\* C13: embed_texts on the empty sequence raises the invalid-input error
\* and makes no provider call.
C13_EmptyInputRejected ==
    (emb.pc # "idle" /\ emb.texts = <<>>)
    => /\ emb.pc = "raised"
       /\ emb.error = "InvalidInput"
       /\ emb.calls = <<>>
       /\ emb.all_embeddings = <<>>

C13_Witness ==
    /\ emb.pc = "raised"
    /\ emb.error = "InvalidInput"
    /\ emb.texts = <<>>
    /\ emb.calls = <<>>

\* C14: a run whose document is missing, is not a PDF or has no text calls
\* load_and_chunk_pdf once, never executes embed-and-upsert and writes
\* nothing.
C14_LoadErrorsTerminal ==
    \A r \in Runs :
       (ing[r].pc # "idle" /\ ing[r].pdf.kind # "pdf")
       => /\ ing[r].loads <= 1
          /\ ing[r].pc \in {"load", "failed"}
          /\ ing[r].chunks = <<>>
          /\ \A id \in DOMAIN hist.last : hist.last[id] # r

\* C15: embed-and-upsert is entered from a successful load-and-chunk only,
\* with that step's chunk list and source id, and once the chunk list is
\* recorded no step of the run calls load_and_chunk_pdf again or changes
\* the recorded chunk list and source id, however often embed-and-upsert is
\* re-executed.
Step2Pcs == {"embed", "open", "create", "upsert"}

C15_StepCheckpoint ==
    [][\A r \in Runs :
         /\ ing'[r].pc \in Step2Pcs
            => /\ ing[r].pc \in Step2Pcs \cup {"load"}
               /\ ing'[r].loads >= 1
               /\ ing'[r].chunks # <<>>
               /\ ing'[r].chunks = ing'[r].pdf.chunks
               /\ ing'[r].source_id = SourceIdOf(ing'[r].event)
         /\ ing[r].chunks # <<>>
            => /\ ing'[r].loads = ing[r].loads
               /\ ing'[r].chunks = ing[r].chunks
               /\ ing'[r].source_id = ing[r].source_id]_vars

C15_Witness ==
    \E r \in hist.lost_ack :
       /\ ing[r].pc = "upsert"
       /\ ing[r].attempt >= 1
       /\ ing[r].loads = 1
       /\ ing[r].landed = Len(ing[r].chunks)
       /\ Len(ing[r].chunks) = 2

\* C16: no step of a query run, first execution or retry, changes the set
\* of stored points.
C16_QueryLeavesStore == [][qry' # qry => store' = store]_vars

C16_Witness ==
    /\ qry.pc = "done"
    /\ qry.search_calls = 2
    /\ qry.gen_calls = 2
    /\ Cardinality(store) = 2
    /\ ing[1].pc = "done"

IdsOf(points) == {p.id : p \in points}

Shrunk ==
    \A r \in hist.sequel :
       LET o == Other(r)
           S == ing[r].source_id
           m == Len(ing[r].chunks)
           n == Len(ing[o].chunks)
       IN (/\ ing[r].pc = "done" /\ ing[o].pc = "done"
           /\ ing[o].source_id = S
           /\ m < n)
          => /\ Cardinality(StoredOf(S)) = n
             /\ StoredOf(S) =
                   Expected(ing[r].chunks, S)
                   \cup {[id |-> PointId(S, k - 1),
                          payload |-> [text |-> ing[o].chunks[k],
                                       source |-> S]] : k \in (m + 1)..n}

C19_NeverDeletes == [][IdsOf(store) \subseteq IdsOf(store') /\ Shrunk']_vars

C19_Witness ==
    \E r \in hist.sequel :
       /\ ing[r].pc = "done" /\ ing[Other(r)].pc = "done"
       /\ ing[r].source_id = ing[Other(r)].source_id
       /\ ing[Other(r)].chunks = <<"alpha info", "beta info">>
       /\ ing[r].chunks = <<"beta info">>
       /\ {p.payload["text"] : p \in store} = {"beta info"}
       /\ Cardinality(store) = 2

\* C18: whenever the session is ingested, the ingestion run of the event
\* the session holds has completed its upsert.
C18_IngestedMeansStored ==
    ui.ingested
    => /\ ui.handled = ui.ingest_event_id
       /\ ing[1].pc = "done"
       /\ StoredOf(ui.source_name) # {}

\* C20, as stated: no two ingest events of a session carry the same file
\* name.
C20_OneEventPerName ==
    \A i, j \in 1..Len(ui.events) :
       ui.events[i].source_id = ui.events[j].source_id => i = j

\* C20, amended: the session is ingested exactly when an event was sent,
\* source_name and ingest_event_id are those of the last event sent, every
\* event carries the name of an uploaded file, and no two consecutive events
\* carry the same name: a rerun with the file of the last event sends
\* nothing.
C20_NoResendOfCurrentFile ==
    LET n == Len(ui.events)
    IN /\ ui.ingested <=> n > 0
       /\ n > 0 => /\ ui.source_name = ui.events[n].source_id
                   /\ ui.ingest_event_id = n
       /\ \A i \in 1..n :
             /\ ui.events[i].source_id \in FileNames
             /\ ui.events[i].pdf_path \in DOMAIN ui.files
       /\ \A i \in 1..(n - 1) :
             ui.events[i].source_id # ui.events[i + 1].source_id

C20_Witness ==
    /\ Len(ui.events) = 2
    /\ ui.uploaded = ui.source_name
    /\ ui.pc = "waiting"
    /\ ui.query.question = <<"what", " ", "is", " ", "alpha?">>

====
